---- MODULE Spec2Model ----
(***************************************************************************)
(* Apportionment verification script (apportionment-check.js).             *)
(*                                                                         *)
(* Money is a JavaScript number in the source; here it is an integer       *)
(* number of thousandths of a currency unit (1.00 = 1000, 0.01 = 10), so   *)
(* that the two-decimal rounding of compareValues and the 0.01 tolerance   *)
(* are exact and the rounded and unrounded amounts can differ.             *)
(*                                                                         *)
(* A tenant database is read-only to the script: db[t] is what the         *)
(* queries against tenant t's database return during one run.  Any await   *)
(* of a query may instead reject with a message from ErrorMessages.        *)
(***************************************************************************)
EXTENDS Integers, Sequences, FiniteSets, TLC

VARIABLES
    clients,     \* config.clients
    dateRange,   \* config.dateRange: month and year of toDate (last day of a month)
    localAhead,  \* the process's time zone is ahead of UTC
    notify,      \* config.email.enabled, config.webhookUrl set
    db,          \* tenant name -> what that tenant's database returns
    pc,          \* position of main()
    conn,        \* mongoClient: "none", "open", "closed"
    i,           \* loop index of the first pass
    results,     \* results array of main()
    failedClients, \* snapshot taken by results.filter before the retry pass
    r,           \* position in failedClients
    chk,         \* frame of the checkClient call in flight
    output,      \* output object built after the retry pass
    log,         \* history: the checkClient calls made, in order
    io,          \* history: connects, closes, file writes, notifications
    fn           \* argument and value of a pure function (specification SpecFn)

vars == <<clients, dateRange, localAhead, notify, db, pc, conn, i, results,
          failedClients, r, chk, output, log, io, fn>>

(***************************************************************************)
(* Bounds of the model.                                                    *)
(***************************************************************************)
MaxClients == 2
WindowYear == 2025

Tenants == {"acme", "globex"}
ErrorMessages == {"connection timed out", "not authorized"}

(***************************************************************************)
(* JavaScript values.                                                      *)
(***************************************************************************)
null == [null |-> TRUE]
nullStr == "<null>"
EmptyMap == [k \in {} |-> 0]

\* m[k] || 0
OrZero(m, k) == IF k \in DOMAIN m THEN m[k] ELSE 0

\* m[k] = v
Put(m, k, v) == [x \in (DOMAIN m) \cup {k} |-> IF x = k THEN v ELSE m[x]]

\* m[k] = v, the total reassigned
AccumulateOverwrites(m, k, v) == Put(m, k, v)

\* m[k] = (m[k] || 0) + v
Accumulate(m, k, v) == Put(m, k, OrZero(m, k) + v)

\* { ...a, ...b }
Spread(a, b) == [x \in (DOMAIN a) \cup (DOMAIN b) |-> IF x \in DOMAIN b THEN b[x] ELSE a[x]]

Abs(x) == IF x < 0 THEN -x ELSE x

\* Math.round(x * 100) / 100 on thousandths: to the nearest hundredth, halves up
Round2(x) == 10 * ((x + 5) \div 10)

(***************************************************************************)
(* FUND_CATEGORIES, in the order Object.entries walks it.                  *)
(***************************************************************************)
FUND_CATEGORIES == <<
    [key |-> "currentTax", label |-> "currentTax", apptTags |-> <<"CTax", "CTaxFee", "CTaxPen">>,
     cmnfundsAltKey |-> "Current Tax"],
    [key |-> "priorTax", label |-> "priorTax", apptTags |-> <<"PTax", "PTaxFee", "PTaxPen">>,
     cmnfundsAltKey |-> "Prior Tax"],
    [key |-> "backTax", label |-> "backTax", apptTags |-> <<"BTax", "BTaxFee", "BTaxPen">>,
     cmnfundsAltKey |-> "Back Tax"],
    [key |-> "miscReceipts", label |-> "miscReceipts",
     apptTags |-> <<"ABT", "JT4MILL", "MV", "MVTS", "FLOOD", "INTEREST", "", "undefined">>,
     cmnfundsAltKey |-> "MISC"],
    [key |-> "mtgTaxCert", label |-> "mtgTaxCert", apptTags |-> <<"MtgTaxCert">>,
     cmnfundsAltKey |-> "MtgTaxFee"],
    [key |-> "mtgTax", label |-> "mtgTax", apptTags |-> <<"MtgTax">>,
     cmnfundsAltKey |-> "MtgTax"] >>

CategoryLabels == {FUND_CATEGORIES[c].label : c \in DOMAIN FUND_CATEGORIES}
FundKeys == {FUND_CATEGORIES[c].cmnfundsAltKey : c \in DOMAIN FUND_CATEGORIES}

\* compareValues' default tolerance, the one checkClient passes (no category sets tolerancePercent)
DefaultTolerance == 10

(***************************************************************************)
(* compareValues(apportionment, gl, tolerance)                             *)
(***************************************************************************)
\* match: Math.round(diff * 100) / 100 <= tolerance
compareValuesRounded(apportionment, gl, tolerance) ==
    LET diff == Abs(apportionment - gl)
    IN  [apportionment |-> Round2(apportionment),
         gl |-> Round2(gl),
         diff |-> Round2(diff),
         match |-> Round2(diff) <= tolerance]

compareValues(apportionment, gl, tolerance) ==
    LET diff == Abs(apportionment - gl)
    IN  [apportionment |-> Round2(apportionment),
         gl |-> Round2(gl),
         diff |-> Round2(diff),
         match |-> diff <= tolerance]

(***************************************************************************)
(* getTaxYearStatus(date): date is what getMonth() and getFullYear() give  *)
(* for the reference date (the argument, or now when the argument is not a *)
(* Date), in the process's local time.                                     *)
(***************************************************************************)
\* if (month < 6)
getTaxYearStatusJune(date) ==
    LET month == date.month0 + 1
        year == date.year
        currentTaxYearStart == IF month < 6 THEN year - 1 ELSE year
    IN  [nextTax |-> currentTaxYearStart + 1,
         currentTax |-> currentTaxYearStart,
         priorTax |-> currentTaxYearStart - 1,
         backTax |-> currentTaxYearStart - 2]

getTaxYearStatus(date) ==
    LET month == date.month0 + 1
        year == date.year
        currentTaxYearStart == IF month <= 6 THEN year - 1 ELSE year
    IN  [nextTax |-> currentTaxYearStart + 1,
         currentTax |-> currentTaxYearStart,
         priorTax |-> currentTaxYearStart - 1,
         backTax |-> currentTaxYearStart - 2]

(***************************************************************************)
(* computeTaxTotals: the merge of the two pipelines' groups by the key     *)
(* `${taxYear}-${schoolDistrict}`, then the classification of each merged  *)
(* group.  merged is kept in insertion order, the order Object.values      *)
(* walks it.  A stored tax year is a number or the string of its decimal   *)
(* digits; a school district is a number.                                  *)
(***************************************************************************)
Num(n) == [type |-> "number", value |-> n]
Str(n) == [type |-> "string", value |-> n]

\* `${v}`: the decimal digits of a number, the characters of a string
TemplateText(v) == v.value

\* v === n, for a number n
StrictEquals(v, n) == v.type = "number" /\ v.value = n

\* the two records have the same key string
SameKey(a, b) ==
    /\ TemplateText(a.taxYear) = TemplateText(b.taxYear)
    /\ a.schoolDistrict = b.schoolDistrict

\* merged[key] = record, for a key already present
MergeOneOverwrites(merged, record) ==
    IF \E k \in DOMAIN merged : SameKey(merged[k], record)
    THEN [k \in DOMAIN merged |-> IF SameKey(merged[k], record) THEN record ELSE merged[k]]
    ELSE Append(merged, record)

\* one iteration of the merge loop
MergeOne(merged, record) ==
    IF \E k \in DOMAIN merged : SameKey(merged[k], record)
    THEN [k \in DOMAIN merged |->
            IF SameKey(merged[k], record)
            THEN [merged[k] EXCEPT !.taxAmt = @ + record.taxAmt,
                                   !.penaltyAmt = @ + record.penaltyAmt,
                                   !.totalFees = @ + record.totalFees,
                                   !.total = @ + record.total]
            ELSE merged[k]]
    ELSE Append(merged, [taxYear |-> record.taxYear,
                         schoolDistrict |-> record.schoolDistrict,
                         taxAmt |-> record.taxAmt,
                         penaltyAmt |-> record.penaltyAmt,
                         totalFees |-> record.totalFees,
                         total |-> record.total])

RECURSIVE MergeLoop(_, _)
MergeLoop(merged, records) ==
    IF records = <<>> THEN merged
    ELSE MergeLoop(MergeOne(merged, Head(records)), Tail(records))

\* for (const record of [...resultsA, ...resultsB])
MergeRecords(resultsA, resultsB) == MergeLoop(<<>>, resultsA \o resultsB)

\* the priorTax test made before the noPriorTax test
yearCategoryPriorFirst(taxYear, taxYearStatus, noPriorTax) ==
    IF StrictEquals(taxYear, taxYearStatus.currentTax) THEN "current"
    ELSE IF StrictEquals(taxYear, taxYearStatus.priorTax) THEN "prior"
    ELSE "back"

yearCategory(taxYear, taxYearStatus, noPriorTax) ==
    IF StrictEquals(taxYear, taxYearStatus.currentTax) THEN "current"
    ELSE IF noPriorTax THEN "back"
    ELSE IF StrictEquals(taxYear, taxYearStatus.priorTax) THEN "prior"
    ELSE "back"

glKey(category) ==
    IF category = "current" THEN "Current Tax"
    ELSE IF category = "prior" THEN "Prior Tax" ELSE "Back Tax"

taxTag(category) ==
    IF category = "current" THEN "CTax"
    ELSE IF category = "prior" THEN "PTax" ELSE "BTax"

penTag(category) ==
    IF category = "current" THEN "CTaxPen"
    ELSE IF category = "prior" THEN "PTaxPen" ELSE "BTaxPen"

feeTag(category) ==
    IF category = "current" THEN "CTaxFee"
    ELSE IF category = "prior" THEN "PTaxFee" ELSE "BTaxFee"

\* one iteration of the classification loop
ClassifyOne(totals, record, taxYearStatus, noPriorTax) ==
    LET category == yearCategory(record.taxYear, taxYearStatus, noPriorTax)
    IN  [glTotals |-> Accumulate(totals.glTotals, glKey(category), record.total),
         apptTotals |->
            Accumulate(
              Accumulate(
                Accumulate(totals.apptTotals, taxTag(category), record.taxAmt),
                penTag(category), record.penaltyAmt),
              feeTag(category), record.totalFees)]

RECURSIVE ClassifyLoop(_, _, _, _)
ClassifyLoop(totals, merged, taxYearStatus, noPriorTax) ==
    IF merged = <<>> THEN totals
    ELSE ClassifyLoop(ClassifyOne(totals, Head(merged), taxYearStatus, noPriorTax),
                      Tail(merged), taxYearStatus, noPriorTax)

\* queryToDate, 23:59:59.999 UTC on the last day of the window's month, as
\* getMonth() and getFullYear() see it: in a zone ahead of UTC that instant
\* is already the first day of the next month.
queryToDate(range, ahead) ==
    IF ~ahead THEN [year |-> range.year, month0 |-> range.month - 1]
    ELSE IF range.month = 12 THEN [year |-> range.year + 1, month0 |-> 0]
    ELSE [year |-> range.year, month0 |-> range.month]

\* computeTaxTotals once both aggregations have returned
computeTaxTotals(resultsA, resultsB, range, ahead, noPriorTax) ==
    ClassifyLoop([glTotals |-> EmptyMap, apptTotals |-> EmptyMap],
                 MergeRecords(resultsA, resultsB),
                 getTaxYearStatus(queryToDate(range, ahead)),
                 noPriorTax)

(***************************************************************************)
(* computeMiscTotals once both aggregations have returned.  totalResult is *)
(* a sequence of at most one group; a detail is a unit's code (0 when the  *)
(* lookup found no unit code) and its amount.                              *)
(***************************************************************************)
unitCodeToTag == [x \in 1..6 |->
    CASE x = 1 -> "ABT" [] x = 2 -> "MV" [] x = 3 -> "MVTS"
      [] x = 4 -> "JT4MILL" [] x = 5 -> "INTEREST" [] x = 6 -> "FLOOD"]

\* a unit code without a mapping tagged 'OTHER', a tag of no category
miscTagOther(unitCode) ==
    IF unitCode # 0 /\ unitCode \in DOMAIN unitCodeToTag THEN unitCodeToTag[unitCode] ELSE "OTHER"

miscTag(unitCode) ==
    IF unitCode # 0 /\ unitCode \in DOMAIN unitCodeToTag THEN unitCodeToTag[unitCode] ELSE ""

RECURSIVE MiscLoop(_, _)
MiscLoop(acc, detailResults) ==
    IF detailResults = <<>> THEN acc
    ELSE LET detail == Head(detailResults)
         IN  MiscLoop([apptTotals |-> Accumulate(acc.apptTotals, miscTag(detail.unitCodeNumber),
                                                 detail.totalAmount),
                       detailSum |-> acc.detailSum + detail.totalAmount],
                      Tail(detailResults))

\* if (unaccounted !== 0), the residual added whatever its size
computeMiscTotalsNoTolerance(totalResult, detailResults) ==
    LET glTotal == IF totalResult = <<>> THEN 0 ELSE totalResult[1].totalMisc
        acc == MiscLoop([apptTotals |-> EmptyMap, detailSum |-> 0], detailResults)
        unaccounted == glTotal - acc.detailSum
    IN  [glTotal |-> glTotal,
         apptTotals |-> IF unaccounted # 0
                        THEN Accumulate(acc.apptTotals, "", unaccounted)
                        ELSE acc.apptTotals]

computeMiscTotals(totalResult, detailResults) ==
    LET glTotal == IF totalResult = <<>> THEN 0 ELSE totalResult[1].totalMisc
        acc == MiscLoop([apptTotals |-> EmptyMap, detailSum |-> 0], detailResults)
        unaccounted == glTotal - acc.detailSum
    IN  [glTotal |-> glTotal,
         apptTotals |-> IF Abs(unaccounted) > 10
                        THEN Accumulate(acc.apptTotals, "", unaccounted)
                        ELSE acc.apptTotals]

(***************************************************************************)
(* computeMtgTotals once the aggregation has returned.                     *)
(***************************************************************************)
computeMtgTotals(mtgResults) ==
    LET totalMtgTax == IF mtgResults = <<>> THEN 0 ELSE mtgResults[1].totalMtgTax
        totalCertFee == IF mtgResults = <<>> THEN 0 ELSE mtgResults[1].totalCertFee
    IN  [glTotals |-> [x \in {"MtgTax", "MtgTaxFee"} |->
                         IF x = "MtgTax" THEN totalMtgTax ELSE totalCertFee],
         apptTotals |-> [x \in {"MtgTax", "MtgTaxCert"} |->
                         IF x = "MtgTax" THEN totalMtgTax ELSE totalCertFee]]

(***************************************************************************)
(* getFundMap and getGLTotals once their queries have returned.  A fund    *)
(* document is [altKey, _id]; an empty altKey is falsy and is skipped.  A  *)
(* ledger group is [_id, totalDeposit, totalPayments, totalTransferOut].   *)
(***************************************************************************)
RECURSIVE getFundMap(_)
getFundMap(funds) ==
    IF funds = <<>> THEN EmptyMap
    ELSE LET fund == funds[Len(funds)]
             rest == getFundMap(SubSeq(funds, 1, Len(funds) - 1))
         IN  IF fund.altKey # "" THEN Put(rest, fund.altKey, fund._id) ELSE rest

\* the aggregation's $match on fund: { $in: fundIds }
LedgerGroups(ledger, fundIds) == SelectSeq(ledger, LAMBDA g : g._id \in fundIds)

RECURSIVE getGLTotals(_)
getGLTotals(groups) ==
    IF groups = <<>> THEN EmptyMap
    ELSE LET g == groups[Len(groups)]
             net == g.totalDeposit - g.totalPayments - g.totalTransferOut
         IN  Put(getGLTotals(SubSeq(groups, 1, Len(groups) - 1)), g._id, net)

(***************************************************************************)
(* checkClient: the comparison loop over FUND_CATEGORIES.                  *)
(***************************************************************************)
\* apptAmount = (apptAmount + apptTotals[tag]) || 0: an absent tag resets the sum
RECURSIVE SumTagsResets(_, _)
SumTagsResets(apptTags, apptTotals) ==
    IF apptTags = <<>> THEN 0
    ELSE LET tag == apptTags[Len(apptTags)]
         IN  IF tag \in DOMAIN apptTotals
             THEN SumTagsResets(SubSeq(apptTags, 1, Len(apptTags) - 1), apptTotals) + apptTotals[tag]
             ELSE 0

RECURSIVE SumTags(_, _)
SumTags(apptTags, apptTotals) ==
    IF apptTags = <<>> THEN 0
    ELSE OrZero(apptTotals, Head(apptTags)) + SumTags(Tail(apptTags), apptTotals)

CompareCategory(cat, apptTotals, glByFundAltKey) ==
    LET apptAmount == SumTags(cat.apptTags, apptTotals)
        glAmount == OrZero(glByFundAltKey, cat.cmnfundsAltKey)
    IN  compareValues(apptAmount, glAmount, DefaultTolerance)

Comparison(apptTotals, glByFundAltKey) ==
    [label \in CategoryLabels |->
        LET cat == CHOOSE c \in {FUND_CATEGORIES[k] : k \in DOMAIN FUND_CATEGORIES} : c.label = label
        IN  CompareCategory(cat, apptTotals, glByFundAltKey)]

\* allMatch = compResult.match, the last category deciding
AllMatchLast(comparison) == comparison[FUND_CATEGORIES[Len(FUND_CATEGORIES)].label].match

\* let allMatch = true; ... if (!compResult.match) allMatch = false;
AllMatch(comparison) == \A label \in DOMAIN comparison : comparison[label].match

\* result.status = allMatch && !glDifferences ? 'MATCH' : 'MISMATCH'
StatusOfDrift(allMatch, glDifferences) == IF allMatch /\ ~glDifferences THEN "MATCH" ELSE "MISMATCH"

\* result.status = allMatch ? 'MATCH' : 'MISMATCH'
StatusOf(allMatch, glDifferences) == IF allMatch THEN "MATCH" ELSE "MISMATCH"

\* fundIds of the cross-check, in catalog order
FundIds(fundMap) ==
    LET present == SelectSeq(FUND_CATEGORIES, LAMBDA cat : cat.cmnfundsAltKey \in DOMAIN fundMap)
    IN  [k \in DOMAIN present |-> fundMap[present[k].cmnfundsAltKey]]

\* glDifferences of the cross-check loop
GLDifferences(fundMap, actualGLTotals, glByFundAltKey) ==
    \E k \in DOMAIN FUND_CATEGORIES :
        LET cat == FUND_CATEGORIES[k]
        IN  /\ cat.cmnfundsAltKey \in DOMAIN fundMap
            /\ Abs(OrZero(actualGLTotals, fundMap[cat.cmnfundsAltKey])
                   - OrZero(glByFundAltKey, cat.cmnfundsAltKey)) > 10

(***************************************************************************)
(* checkClient(mongoClient, clientName, dateRange): one action per await.  *)
(* chk.pc names the query the call is waiting for.                         *)
(***************************************************************************)
Idle == [pc |-> "idle"]

\* the frame when the call reaches its first await
NewFrame(clientName) ==
    [pc |-> "getClientConfig",
     clientName |-> clientName,
     result |-> [client |-> clientName, status |-> nullStr, comparison |-> null, error |-> nullStr],
     clientConfig |-> null, fundMap |-> null,
     taxResult |-> null, miscResult |-> null, mtgResult |-> null,
     apptTotals |-> null, glByFundAltKey |-> null,
     comparison |-> null, allMatch |-> TRUE,
     actualGLTotals |-> null, glDifferences |-> FALSE,
     thrown |-> nullStr]   \* history: the message of the failure raised in this call

Awaiting == {"getClientConfig", "getFundMap", "computeTaxTotals", "computeMiscTotals",
             "computeMtgTotals", "getGLTotals"}

\* a query is issued on the shared handle
Issue(h, handle) == IF handle = "open" THEN h ELSE [h EXCEPT !.stray = TRUE]

MainUnchanged == UNCHANGED <<clients, dateRange, localAhead, notify, db, pc, conn, i, results,
                             failedClients, r, output, log, fn>>

\* const clientConfig = await getClientConfig(db)
ConfigReturns ==
    /\ chk.pc = "getClientConfig"
    /\ chk' = [chk EXCEPT !.clientConfig = [noPriorTax |-> db[chk.clientName].noPriorTax],
                          !.pc = "getFundMap"]
    /\ io' = Issue(io, conn)
    /\ MainUnchanged

\* const fundMap = await getFundMap(db)
FundMapReturns ==
    /\ chk.pc = "getFundMap"
    /\ chk' = [chk EXCEPT !.fundMap = getFundMap(db[chk.clientName].funds),
                          !.pc = "computeTaxTotals"]
    /\ io' = Issue(io, conn)
    /\ MainUnchanged

\* const taxResult = await computeTaxTotals(...)
TaxReturns ==
    /\ chk.pc = "computeTaxTotals"
    /\ chk' = [chk EXCEPT !.taxResult = computeTaxTotals(db[chk.clientName].taxA,
                                                         db[chk.clientName].taxB,
                                                         dateRange, localAhead,
                                                         chk.clientConfig.noPriorTax),
                          !.pc = "computeMiscTotals"]
    /\ io' = Issue(io, conn)
    /\ MainUnchanged

\* const miscResult = await computeMiscTotals(...)
MiscReturns ==
    /\ chk.pc = "computeMiscTotals"
    /\ chk' = [chk EXCEPT !.miscResult = computeMiscTotals(db[chk.clientName].miscTotal,
                                                           db[chk.clientName].miscDetails),
                          !.pc = "computeMtgTotals"]
    /\ io' = Issue(io, conn)
    /\ MainUnchanged

\* result.comparison = comparison made before the cross-check's query is awaited
AwaitCrossCheckAssigned(frame) ==
    [frame EXCEPT !.result.comparison = frame.comparison, !.pc = "getGLTotals"]

\* the frame after the comparison, when the cross-check has a ledger query to await
AwaitCrossCheck(frame) == [frame EXCEPT !.pc = "getGLTotals"]

\* the reported gl taken from the ledger postings where the cross-check has them
FinishWithLedger(frame) ==
    LET ledger == IF frame.actualGLTotals = null THEN frame.glByFundAltKey
                  ELSE [key \in (DOMAIN frame.glByFundAltKey) \cap (DOMAIN frame.fundMap) |->
                          OrZero(frame.actualGLTotals, frame.fundMap[key])]
        comparison == Comparison(frame.apptTotals, Spread(frame.glByFundAltKey, ledger))
    IN  [frame EXCEPT !.result.comparison = comparison,
                      !.result.status = StatusOf(AllMatch(comparison), frame.glDifferences),
                      !.pc = "returned"]

\* result.comparison = comparison; result.status = ...; return result
Finish(frame) ==
    [frame EXCEPT !.result.comparison = frame.comparison,
                  !.result.status = StatusOf(frame.allMatch, frame.glDifferences),
                  !.pc = "returned"]

\* const mtgResult = await computeMtgTotals(...), the combined totals, the
\* comparison, and the cross-check up to its query
MtgReturns ==
    /\ chk.pc = "computeMtgTotals"
    /\ LET mtgResult == computeMtgTotals(db[chk.clientName].mtg)
           apptTotals == Spread(Spread(chk.taxResult.apptTotals, chk.miscResult.apptTotals),
                                mtgResult.apptTotals)
           glByFundAltKey == Spread(Put(chk.taxResult.glTotals, "MISC", chk.miscResult.glTotal),
                                    mtgResult.glTotals)
           comparison == Comparison(apptTotals, glByFundAltKey)
           compared == [chk EXCEPT !.mtgResult = mtgResult,
                                   !.apptTotals = apptTotals,
                                   !.glByFundAltKey = glByFundAltKey,
                                   !.comparison = comparison,
                                   !.allMatch = AllMatch(comparison)]
       IN  IF Len(FundIds(chk.fundMap)) > 0
           THEN /\ chk' = AwaitCrossCheck(compared)
                /\ io' = Issue(io, conn)
           ELSE /\ chk' = Finish(compared)
                /\ io' = io
    /\ MainUnchanged

\* const actualGLTotals = await getGLTotals(...), the rest of the cross-check
GLTotalsReturn ==
    /\ chk.pc = "getGLTotals"
    /\ LET fundIds == {FundIds(chk.fundMap)[k] : k \in DOMAIN FundIds(chk.fundMap)}
           actualGLTotals == getGLTotals(LedgerGroups(db[chk.clientName].ledger, fundIds))
       IN  chk' = Finish([chk EXCEPT !.actualGLTotals = actualGLTotals,
                                     !.glDifferences = GLDifferences(chk.fundMap, actualGLTotals,
                                                                     chk.glByFundAltKey)])
    /\ io' = io
    /\ MainUnchanged

\* catch (error) { result.error = error.message; }
CaughtStatusUnset(frame, message) ==
    [frame EXCEPT !.result.error = message, !.pc = "returned"]

\* catch (error) { result.status = 'ERROR'; result.error = error.message; }
Caught(frame, message) ==
    [frame EXCEPT !.result.status = "ERROR", !.result.error = message, !.pc = "returned"]

\* the awaited query rejects
QueryFails ==
    /\ chk.pc \in Awaiting
    /\ \E message \in ErrorMessages : chk' = [Caught(chk, message) EXCEPT !.thrown = message]
    /\ io' = io
    /\ MainUnchanged

(***************************************************************************)
(* main(): one action per await.                                           *)
(***************************************************************************)
IsError(res) == res.status = "ERROR"

\* results.findIndex(x => x.client === client), 1-based; 0 stands for -1
FindIndex(list, client) ==
    IF \E k \in DOMAIN list : list[k].client = client
    THEN CHOOSE k \in DOMAIN list :
            /\ list[k].client = client
            /\ \A j \in DOMAIN list : list[j].client = client => k <= j
    ELSE 0

\* results[0] = retryResult
ReplaceFirstEntry(list, failed, retryResult) == [list EXCEPT ![1] = retryResult]

\* results[index] = retryResult, for the entry the retry of `failed` replaces
Replace(list, failed, retryResult) ==
    LET index == FindIndex(list, failed.client)
    IN  IF index # 0 THEN [list EXCEPT ![index] = retryResult] ELSE list

CountStatus(list, status) == Cardinality({k \in DOMAIN list : list[k].status = status})

\* the output object
BuildOutput(list) ==
    [summary |-> [total |-> Len(list),
                  matched |-> CountStatus(list, "MATCH"),
                  mismatched |-> CountStatus(list, "MISMATCH"),
                  errors |-> CountStatus(list, "ERROR")],
     results |-> list]

Called(pass, clientName) == [log EXCEPT !.calls = Append(@, [pass |-> pass, client |-> clientName])]

ConfigUnchanged == UNCHANGED <<clients, dateRange, localAhead, notify, db, fn>>

\* the retry pass with every failed client queued twice
AfterFirstPassTwice(list, history, h) ==
    LET failed == SelectSeq(list, IsError) \o SelectSeq(list, IsError)
    IN  /\ failedClients' = failed
        /\ IF Len(failed) > 0
           THEN /\ chk' = NewFrame(failed[1].client)
                /\ log' = [history EXCEPT !.first = list,
                                          !.calls = Append(@, [pass |-> 2, client |-> failed[1].client])]
                /\ io' = Issue(h, "open")
                /\ r' = 1
                /\ pc' = "awaitRetry"
           ELSE /\ chk' = Idle
                /\ log' = [history EXCEPT !.first = list]
                /\ io' = h
                /\ r' = 0
                /\ pc' = "closing"

\* the retry pass starts, or, with no failed client, mongoClient.close() is called
AfterFirstPass(list, history, h) ==
    LET failed == SelectSeq(list, IsError)
    IN  /\ failedClients' = failed
        /\ IF Len(failed) > 0
           THEN /\ chk' = NewFrame(failed[1].client)
                /\ log' = [history EXCEPT !.first = list,
                                          !.calls = Append(@, [pass |-> 2, client |-> failed[1].client])]
                /\ io' = Issue(h, "open")
                /\ r' = 1
                /\ pc' = "awaitRetry"
           ELSE /\ chk' = Idle
                /\ log' = [history EXCEPT !.first = list]
                /\ io' = h
                /\ r' = 0
                /\ pc' = "closing"

\* mongoClient.connect() not awaited: the first pass starts on a connection
\* that is not open yet
ConnectNotAwaited ==
    /\ pc = "connect"
    /\ Len(clients) > 0
    /\ conn' = "none"
    /\ results' = <<>>
    /\ i' = 0
    /\ chk' = NewFrame(clients[1])
    /\ log' = Called(1, clients[1])
    /\ io' = Issue(io, "none")
    /\ pc' = "awaitFirst"
    /\ UNCHANGED <<failedClients, r, output>>
    /\ ConfigUnchanged

\* await mongoClient.connect() resolves; the first pass calls checkClient
Connect ==
    /\ pc = "connect"
    /\ conn' = "open"
    /\ results' = <<>>
    /\ i' = 0
    /\ output' = output
    /\ IF Len(clients) > 0
       THEN /\ chk' = NewFrame(clients[1])
            /\ log' = Called(1, clients[1])
            /\ io' = Issue([io EXCEPT !.opens = @ + 1], "open")
            /\ pc' = "awaitFirst"
            /\ UNCHANGED <<failedClients, r>>
       ELSE AfterFirstPass(<<>>, log, [io EXCEPT !.opens = @ + 1])
    /\ ConfigUnchanged

\* the catch of the failed connect() without process.exit(1): main() goes on
ConnectFailsIgnored ==
    /\ pc = "connect"
    /\ Len(clients) > 0
    /\ chk' = NewFrame(clients[1])
    /\ log' = Called(1, clients[1])
    /\ io' = Issue(io, conn)
    /\ pc' = "awaitFirst"
    /\ results' = <<>>
    /\ i' = 0
    /\ UNCHANGED <<conn, failedClients, r, output>>
    /\ ConfigUnchanged

\* await mongoClient.connect() rejects: process.exit(1)
ConnectFails ==
    /\ pc = "connect"
    /\ pc' = "exit"
    /\ io' = [io EXCEPT !.exitCode = 1]
    /\ UNCHANGED <<conn, i, results, failedClients, r, chk, output, log>>
    /\ ConfigUnchanged

\* the first loop with the bound i < config.clients.length - 1
FirstPassResumesEndsEarly ==
    /\ pc = "awaitFirst"
    /\ chk.pc = "returned"
    /\ LET pushed == Append(results, chk.result)
       IN  /\ results' = pushed
           /\ i' = i + 1
           /\ IF i + 2 < Len(clients)
              THEN /\ chk' = NewFrame(clients[i + 2])
                   /\ log' = Called(1, clients[i + 2])
                   /\ io' = Issue(io, conn)
                   /\ UNCHANGED <<pc, failedClients, r>>
              ELSE AfterFirstPass(pushed, log, io)
    /\ UNCHANGED <<conn, output>>
    /\ ConfigUnchanged

\* const result = await checkClient(...) of the first pass resumes
FirstPassResumes ==
    /\ pc = "awaitFirst"
    /\ chk.pc = "returned"
    /\ LET pushed == Append(results, chk.result)
       IN  /\ results' = pushed
           /\ i' = i + 1
           /\ IF i + 1 < Len(clients)
              THEN /\ chk' = NewFrame(clients[i + 2])
                   /\ log' = Called(1, clients[i + 2])
                   /\ io' = Issue(io, conn)
                   /\ UNCHANGED <<pc, failedClients, r>>
              ELSE AfterFirstPass(pushed, log, io)
    /\ UNCHANGED <<conn, output>>
    /\ ConfigUnchanged

\* const retryResult = await checkClient(...) of the retry pass resumes
RetryResumes ==
    /\ pc = "awaitRetry"
    /\ chk.pc = "returned"
    /\ results' = Replace(results, failedClients[r], chk.result)
    /\ IF r < Len(failedClients)
       THEN /\ r' = r + 1
            /\ chk' = NewFrame(failedClients[r + 1].client)
            /\ log' = [log EXCEPT !.calls = Append(@, [pass |-> 2, client |-> failedClients[r + 1].client]),
                                  !.retried = Append(@, chk.result)]
            /\ io' = Issue(io, conn)
            /\ pc' = pc
       ELSE /\ r' = r
            /\ chk' = Idle
            /\ log' = [log EXCEPT !.retried = Append(@, chk.result)]
            /\ io' = io
            /\ pc' = "closing"
    /\ UNCHANGED <<conn, i, failedClients, output>>
    /\ ConfigUnchanged

\* await mongoClient.close() resolves: the summary, the results file
CloseReturns ==
    /\ pc = "closing"
    /\ conn' = "closed"
    /\ output' = BuildOutput(results)
    /\ io' = [io EXCEPT !.closes = @ + 1, !.files = @ + 1]
    /\ pc' = IF notify.email THEN "sendEmail"
             ELSE IF notify.webhook THEN "sendToWebhook" ELSE "done"
    /\ UNCHANGED <<i, results, failedClients, r, chk, log>>
    /\ ConfigUnchanged

\* await sendEmail(output): delivered, or the failure is caught and logged
EmailSettles ==
    /\ pc = "sendEmail"
    /\ \E delivered \in BOOLEAN :
          io' = IF delivered THEN [io EXCEPT !.emails = @ + 1] ELSE io
    /\ pc' = IF notify.webhook THEN "sendToWebhook" ELSE "done"
    /\ UNCHANGED <<conn, i, results, failedClients, r, chk, output, log>>
    /\ ConfigUnchanged

\* await sendToWebhook(output): delivered, or the failure is caught and logged
WebhookSettles ==
    /\ pc = "sendToWebhook"
    /\ \E delivered \in BOOLEAN :
          io' = IF delivered THEN [io EXCEPT !.webhooks = @ + 1] ELSE io
    /\ pc' = "done"
    /\ UNCHANGED <<conn, i, results, failedClients, r, chk, output, log>>
    /\ ConfigUnchanged

Next ==
    \/ Connect
    \/ ConnectFails
    \/ ConfigReturns
    \/ FundMapReturns
    \/ TaxReturns
    \/ MiscReturns
    \/ MtgReturns
    \/ GLTotalsReturn
    \/ QueryFails
    \/ FirstPassResumes
    \/ RetryResumes
    \/ CloseReturns
    \/ EmailSettles
    \/ WebhookSettles

(***************************************************************************)
(* The inputs of a run: tenant lists, windows, and tenant databases.       *)
(***************************************************************************)
TaxGroup(taxYear, schoolDistrict, taxAmt, penaltyAmt, totalFees, total) ==
    [taxYear |-> Num(taxYear), schoolDistrict |-> schoolDistrict, taxAmt |-> taxAmt,
     penaltyAmt |-> penaltyAmt, totalFees |-> totalFees, total |-> total]

\* the group with its tax year stored as a string
TextYear(group) == [group EXCEPT !.taxYear = Str(@.value)]

\* the group {taxAmt: 100, penaltyAmt: 5, totalFees: 2, total: 107}
CurrentGroup == TaxGroup(WindowYear, 1, 100000, 5000, 2000, 107000)

TaxResultSets ==
    { <<>>,
      <<CurrentGroup>>,
      <<TaxGroup(WindowYear - 1, 1, 50000, 0, 1000, 51000)>>,
      <<CurrentGroup, TaxGroup(WindowYear - 1, 2, 30000, 1000, 0, 31000)>>,
      <<TaxGroup(WindowYear - 1, 1, 50000, 0, 1000, 51000),
        TaxGroup(WindowYear - 2, 1, 20000, 0, 0, 20000)>>,
      <<TaxGroup(WindowYear, 2, 20000, 0, 0, 20012)>>,
      <<TaxGroup(WindowYear - 1, 2, 8000, 0, 0, 8010)>>,
      <<TaxGroup(WindowYear - 2, 1, 5000, 0, 0, 5000),
        TaxGroup(WindowYear, 1, 40000, 1000, 0, 41000)>>,
      <<TextYear(TaxGroup(WindowYear, 1, 60000, 0, 0, 60000))>> }

FundDoc(altKey, id) == [altKey |-> altKey, _id |-> id]

CurrentTaxFund == <<FundDoc("Current Tax", "f1")>>

AllFunds == <<FundDoc("Current Tax", "f1"), FundDoc("Prior Tax", "f2"), FundDoc("Back Tax", "f3"),
              FundDoc("MISC", "f4"), FundDoc("MtgTaxFee", "f5"), FundDoc("MtgTax", "f6"),
              FundDoc("", "f7")>>

FundSets == {<<>>, CurrentTaxFund, AllFunds}

LedgerGroup(id, totalDeposit, totalPayments, totalTransferOut) ==
    [_id |-> id, totalDeposit |-> totalDeposit, totalPayments |-> totalPayments,
     totalTransferOut |-> totalTransferOut]

\* ledger postings of "Current Tax": 107, 100, 214, or none
Ledger107 == <<LedgerGroup("f1", 107000, 0, 0)>>
Ledger100 == <<LedgerGroup("f1", 120000, 15000, 5000)>>
Ledger214 == <<LedgerGroup("f1", 214000, 0, 0), LedgerGroup("f9", 1000, 0, 0)>>
Ledgers == {<<>>, Ledger107, Ledger100, Ledger214}

MiscUnit(unitCodeNumber, totalAmount) == [unitCodeNumber |-> unitCodeNumber, totalAmount |-> totalAmount]

MiscResultSets ==
    { [total |-> <<>>, details |-> <<>>],
      [total |-> <<[totalMisc |-> 1000000]>>, details |-> <<MiscUnit(1, 600000), MiscUnit(2, 350000)>>],
      [total |-> <<[totalMisc |-> 1000000]>>, details |-> <<MiscUnit(1, 600000), MiscUnit(2, 400005)>>],
      [total |-> <<[totalMisc |-> 500000]>>, details |-> <<MiscUnit(7, 200000), MiscUnit(0, 300000)>>],
      [total |-> <<[totalMisc |-> 1010]>>, details |-> <<MiscUnit(3, 1000)>>],
      [total |-> <<[totalMisc |-> 12]>>, details |-> <<>>],
      [total |-> <<[totalMisc |-> 1000]>>, details |-> <<MiscUnit(4, 1500), MiscUnit(9, 20)>>] }

MtgResultSets == {<<>>, <<[totalMtgTax |-> 40000, totalCertFee |-> 1500]>>}

Database(noPriorTax, funds, taxA, taxB, misc, mtg, ledger) ==
    [noPriorTax |-> noPriorTax, funds |-> funds, taxA |-> taxA, taxB |-> taxB,
     miscTotal |-> misc.total, miscDetails |-> misc.details, mtg |-> mtg, ledger |-> ledger]

NoMisc == [total |-> <<>>, details |-> <<>>]

TaxDatabases ==
    {Database(np, CurrentTaxFund, a, b, NoMisc, <<>>, Ledger107) :
        np \in BOOLEAN, a \in TaxResultSets, b \in TaxResultSets}

LedgerDatabases ==
    {Database(FALSE, f, <<CurrentGroup>>, <<CurrentGroup>>, NoMisc, <<>>, l) :
        f \in FundSets, l \in Ledgers}

MiscDatabases ==
    {Database(FALSE, AllFunds, <<>>, <<>>, m, g, <<>>) : m \in MiscResultSets, g \in MtgResultSets}

\* tenants with tax, misc and mortgage receipts together: the tax groups'
\* totals off by 0.012 or not at all, the misc units complete or 50.00 short
MixedDatabases ==
    {Database(FALSE, AllFunds, a, <<>>, m, <<[totalMtgTax |-> 40000, totalCertFee |-> 1500]>>, <<>>) :
        a \in {<<CurrentGroup>>, <<TaxGroup(WindowYear, 2, 20000, 0, 0, 20012)>>},
        m \in {[total |-> <<[totalMisc |-> 1000000]>>,
                details |-> <<MiscUnit(1, 600000), MiscUnit(2, 350000)>>],
               [total |-> <<[totalMisc |-> 500000]>>,
                details |-> <<MiscUnit(7, 200000), MiscUnit(0, 300000)>>]}}

Databases == TaxDatabases \cup LedgerDatabases \cup MiscDatabases \cup MixedDatabases

\* a tenant that reconciles and one that does not
FewDatabases ==
    {Database(FALSE, CurrentTaxFund, <<CurrentGroup>>, <<CurrentGroup>>, NoMisc, <<>>, Ledger214),
     Database(FALSE, <<>>, <<TaxGroup(WindowYear, 2, 20000, 0, 0, 20012)>>, <<>>, NoMisc, <<>>, <<>>)}

Windows == {[month |-> m, year |-> WindowYear] : m \in {6, 7, 12}}

Notifications == [email : BOOLEAN, webhook : BOOLEAN]

\* the tenant lists --client / --clients can give, up to MaxClients long
ClientLists == UNION {[1..n -> Tenants] : n \in 1..MaxClients}

InitWith(lists, databases, windows, zones, notifications) ==
    /\ clients \in lists
    /\ dateRange \in windows
    /\ localAhead \in zones
    /\ notify \in notifications
    /\ db \in databases
    /\ pc = "connect"
    /\ conn = "none"
    /\ i = 0
    /\ results = <<>>
    /\ failedClients = <<>>
    /\ r = 0
    /\ chk = Idle
    /\ output = null
    /\ log = [calls |-> <<>>, first |-> <<>>, retried |-> <<>>]
    /\ io = [opens |-> 0, closes |-> 0, files |-> 0, emails |-> 0, webhooks |-> 0,
             exitCode |-> 0, stray |-> FALSE]
    /\ fn = null

\* runs over tenant lists, each tenant with one of two databases
Init ==
    InitWith(ClientLists, [Tenants -> FewDatabases], {[month |-> 12, year |-> WindowYear]},
             {FALSE}, Notifications)

Spec == Init /\ [][Next]_vars

\* the tenant lists acme, globex, acme, ... of every length up to MaxClients
AlternatingLists ==
    {[k \in 1..n |-> IF k % 2 = 1 THEN "acme" ELSE "globex"] : n \in 1..MaxClients}

\* runs with both notifications on, each tenant with a database of its own
InitFair ==
    InitWith(AlternatingLists,
             {[t \in Tenants |-> IF t = "acme" THEN mine
                                  ELSE CHOOSE other \in FewDatabases : other # mine] :
                 mine \in FewDatabases},
             {[month |-> 12, year |-> WindowYear]}, {FALSE},
             {[email |-> TRUE, webhook |-> TRUE]})

\* these runs when every pending await is eventually resumed: a query that
\* was issued returns or fails, and the continuation of main() runs
SpecFair == InitFair /\ [][Next]_vars /\ WF_vars(Next)

\* runs of one tenant over every database and window
InitCheck ==
    InitWith({<<"acme">>},
             {[t \in Tenants |-> IF t = "acme" THEN d ELSE CHOOSE x \in FewDatabases : TRUE] :
                 d \in Databases},
             Windows, BOOLEAN, {[email |-> TRUE, webhook |-> TRUE]})

SpecCheck == InitCheck /\ [][Next]_vars

(***************************************************************************)
(* The pure functions on their own: an argument is drawn, the function is  *)
(* applied to it.                                                          *)
(***************************************************************************)
MaxAmount == 30

Amounts == (0 - 12)..MaxAmount
Tolerances == {0, DefaultTolerance, DefaultTolerance + 5}
Dates == [year : (WindowYear - 1)..(WindowYear + 1), month0 : 0..11]

\* apportionment totals by tag: none, some tags of a category, every tag of
\* a category, the '' bucket, a tag no category lists
ApptTotalsMaps ==
    { EmptyMap,
      Put(EmptyMap, "CTax", 100000),
      Put(Put(Put(EmptyMap, "CTax", 100000), "CTaxPen", 5000), "CTaxFee", 2000),
      Put(Put(EmptyMap, "PTaxPen", 1000), "BTaxFee", 10),
      Put(Put(EmptyMap, "", 50000), "MV", 350000),
      Put(Put(EmptyMap, "MtgTax", 40000), "MtgTaxCert", 1500),
      Put(Put(EmptyMap, "SCHOOL", 7000), "INTEREST", 0 - 500) }

\* GL totals by fund key: none, some fund keys, a key no category lists
GlTotalsMaps ==
    { EmptyMap,
      Put(EmptyMap, "Current Tax", 107000),
      Put(EmptyMap, "Current Tax", 100000),
      Put(Put(EmptyMap, "Prior Tax", 1000), "Back Tax", 20),
      Put(Put(EmptyMap, "MISC", 400000), "MtgTaxFee", 1500),
      Put(Put(EmptyMap, "MtgTax", 40000), "Escrow", 900) }

InitFn ==
    /\ fn \in {[op |-> "compareValues", arg |-> <<a, g, t>>, value |-> null] :
                  a \in Amounts, g \in Amounts, t \in Tolerances}
              \cup {[op |-> "getTaxYearStatus", arg |-> d, value |-> null] : d \in Dates}
              \cup {[op |-> "comparison", arg |-> <<a, g>>, value |-> null] :
                       a \in ApptTotalsMaps, g \in GlTotalsMaps}
    /\ clients = <<>>
    /\ dateRange = [month |-> 12, year |-> WindowYear]
    /\ localAhead = FALSE
    /\ notify = [email |-> FALSE, webhook |-> FALSE]
    /\ db = [t \in Tenants |-> CHOOSE x \in FewDatabases : TRUE]
    /\ pc = "fn"
    /\ conn = "none"
    /\ i = 0
    /\ results = <<>>
    /\ failedClients = <<>>
    /\ r = 0
    /\ chk = Idle
    /\ output = null
    /\ log = [calls |-> <<>>, first |-> <<>>, retried |-> <<>>]
    /\ io = [opens |-> 0, closes |-> 0, files |-> 0, emails |-> 0, webhooks |-> 0,
             exitCode |-> 0, stray |-> FALSE]

ApplyCompareValues ==
    /\ fn.op = "compareValues"
    /\ fn.value = null
    /\ fn' = [fn EXCEPT !.value = compareValues(fn.arg[1], fn.arg[2], fn.arg[3])]
    /\ UNCHANGED <<clients, dateRange, localAhead, notify, db, pc, conn, i, results,
                   failedClients, r, chk, output, log, io>>

ApplyGetTaxYearStatus ==
    /\ fn.op = "getTaxYearStatus"
    /\ fn.value = null
    /\ fn' = [fn EXCEPT !.value = getTaxYearStatus(fn.arg)]
    /\ UNCHANGED <<clients, dateRange, localAhead, notify, db, pc, conn, i, results,
                   failedClients, r, chk, output, log, io>>

\* the comparison loop of checkClient over the six categories
ApplyComparison ==
    /\ fn.op = "comparison"
    /\ fn.value = null
    /\ fn' = [fn EXCEPT !.value = Comparison(fn.arg[1], fn.arg[2])]
    /\ UNCHANGED <<clients, dateRange, localAhead, notify, db, pc, conn, i, results,
                   failedClients, r, chk, output, log, io>>

NextFn == ApplyCompareValues \/ ApplyGetTaxYearStatus \/ ApplyComparison

SpecFn == InitFn /\ [][NextFn]_vars

(***************************************************************************)
(* Properties of the run (specification Spec).                             *)
(***************************************************************************)
AfterRetry == pc \in {"closing", "sendEmail", "sendToWebhook", "done"}

RetryCalls == SelectSeq(log.calls, LAMBDA c : c.pass = 2)

\* the place of entry k among the entries that were ERROR after the first pass
ErrorRank(k) == Cardinality({j \in 1..k : IsError(log.first[j])})

\* C1: once the retry pass is over, the clients re-checked are exactly the
\* entries that were ERROR after the first pass, once each and in their
\* order; the re-check made for an entry has replaced that very entry,
\* whatever its status; and no tenant with a MATCH or MISMATCH entry after
\* the first pass has been re-checked.
C1_RetryReplacesOwnEntry ==
    AfterRetry =>
        LET first == log.first
            errors == SelectSeq(first, IsError)
        IN  /\ Len(RetryCalls) = Len(errors)
            /\ \A k \in DOMAIN errors : RetryCalls[k].client = errors[k].client
            /\ \A k \in DOMAIN first :
                  IsError(first[k]) => results[k] = log.retried[ErrorRank(k)]
            /\ \A k \in DOMAIN first :
                  ~IsError(first[k]) =>
                      \A c \in DOMAIN RetryCalls : RetryCalls[c].client # first[k].client

\* C2: a failure raised while a tenant is checked ends that check with the
\* result {status ERROR, error: the failure's message, comparison null};
\* the step leaves main() and the results of the other tenants alone; and
\* main() goes on: it appends the result and checks the next tenant.
C2_FailureIsolated ==
    [][ /\ (chk.pc \in Awaiting /\ chk'.pc = "returned" /\ chk'.thrown # nullStr) =>
            /\ chk'.result = [client |-> chk.clientName, status |-> "ERROR",
                              comparison |-> null, error |-> chk'.thrown]
            /\ results' = results
            /\ pc' = pc
        /\ (pc = "awaitFirst" /\ chk.pc = "returned" /\ chk.thrown # nullStr) =>
            /\ results' = Append(results, chk.result)
            /\ i + 1 < Len(clients) =>
                  /\ pc' = "awaitFirst"
                  /\ chk'.pc = "getClientConfig"
                  /\ chk'.clientName = clients[i + 2]
      ]_vars

\* a failed first tenant is in the results and the second tenant's check has moved on
C2_Witness ==
    /\ pc = "awaitFirst"
    /\ Len(results) = 1
    /\ results[1].status = "ERROR"
    /\ results[1].error \in ErrorMessages
    /\ chk.pc = "computeTaxTotals"

\* C3: once the first pass is over, and once the retry pass is over, the
\* result list is as long as the tenant list and entry k is a result of the
\* k-th requested tenant.
C3_OneResultPerTenant ==
    (pc = "awaitRetry" \/ AfterRetry) =>
        /\ Len(results) = Len(clients)
        /\ \A k \in DOMAIN clients : results[k].client = clients[k]
        /\ Len(log.first) = Len(clients)
        /\ \A k \in DOMAIN clients : log.first[k].client = clients[k]

\* a finished run of two different tenants, the second retried
C3_Witness ==
    /\ pc = "done"
    /\ Len(clients) >= 2
    /\ clients[1] # clients[2]
    /\ IsError(log.first[2])
    /\ ~IsError(log.first[1])
    /\ Len(log.retried) = 1

(***************************************************************************)
(* Properties of one tenant's check (specification SpecCheck).             *)
(***************************************************************************)
RECURSIVE SumSeq(_)
SumSeq(seq) == IF seq = <<>> THEN 0 ELSE Head(seq) + SumSeq(Tail(seq))

\* the check in flight has computed its tax totals
TaxComputed == chk.pc \in {"computeMiscTotals", "computeMtgTotals", "getGLTotals", "returned"}
                  /\ chk.taxResult # null

\* the check in flight has returned without a failure
Completed == chk.pc = "returned" /\ chk.thrown = nullStr

WindowStatus == getTaxYearStatus(queryToDate(dateRange, localAhead))

\* the bucket of a merged record, as the rule states it
RuleBucket(taxYear, noPriorTax) ==
    CASE taxYear = Num(WindowStatus.currentTax) -> "current"
      [] taxYear # Num(WindowStatus.currentTax) /\ noPriorTax -> "back"
      [] taxYear # Num(WindowStatus.currentTax) /\ ~noPriorTax
            /\ taxYear = Num(WindowStatus.priorTax) -> "prior"
      [] OTHER -> "back"

BucketKeys ==
    [current |-> [gl |-> "Current Tax", tax |-> "CTax", pen |-> "CTaxPen", fee |-> "CTaxFee"],
     prior |-> [gl |-> "Prior Tax", tax |-> "PTax", pen |-> "PTaxPen", fee |-> "PTaxFee"],
     back |-> [gl |-> "Back Tax", tax |-> "BTax", pen |-> "BTaxPen", fee |-> "BTaxFee"]]

\* C4: every merged tax record is counted in the bucket the rule gives it:
\* current if its tax year is currentTax, else back if noPriorTax is set,
\* else prior if its tax year is priorTax, else back; so each bucket's GL
\* total and tag totals are the sums over exactly the records of that
\* bucket, and with noPriorTax set nothing is under Prior Tax or PTax*.
C4_BucketRule ==
    TaxComputed =>
        LET d == db[chk.clientName]
            noPriorTax == chk.clientConfig.noPriorTax
            merged == MergeRecords(d.taxA, d.taxB)
            In(b) == SelectSeq(merged, LAMBDA rec : RuleBucket(rec.taxYear, noPriorTax) = b)
        IN  /\ \A b \in DOMAIN BucketKeys :
                 /\ OrZero(chk.taxResult.glTotals, BucketKeys[b].gl)
                       = SumSeq([k \in DOMAIN In(b) |-> In(b)[k].total])
                 /\ OrZero(chk.taxResult.apptTotals, BucketKeys[b].tax)
                       = SumSeq([k \in DOMAIN In(b) |-> In(b)[k].taxAmt])
                 /\ OrZero(chk.taxResult.apptTotals, BucketKeys[b].pen)
                       = SumSeq([k \in DOMAIN In(b) |-> In(b)[k].penaltyAmt])
                 /\ OrZero(chk.taxResult.apptTotals, BucketKeys[b].fee)
                       = SumSeq([k \in DOMAIN In(b) |-> In(b)[k].totalFees])
            /\ noPriorTax =>
                 /\ "Prior Tax" \notin DOMAIN chk.taxResult.glTotals
                 /\ {"PTax", "PTaxPen", "PTaxFee"} \cap DOMAIN chk.taxResult.apptTotals = {}

\* with noPriorTax set, a record of the prior tax year has been counted under Back Tax
C4_Witness ==
    /\ TaxComputed
    /\ chk.clientConfig.noPriorTax
    /\ \E k \in DOMAIN db[chk.clientName].taxA :
          /\ db[chk.clientName].taxA[k].taxYear = Num(WindowStatus.priorTax)
          /\ db[chk.clientName].taxA[k].total > 0
    /\ OrZero(chk.taxResult.glTotals, "Back Tax") > 0

SixCategories == {"currentTax", "priorTax", "backTax", "miscReceipts", "mtgTaxCert", "mtgTax"}

\* C7: a check that completes without failure reports the six categories,
\* and its status is MATCH if every one of them has match = true and
\* MISMATCH otherwise.
C7_MatchIffAllCategoriesMatch ==
    Completed =>
        /\ DOMAIN chk.result.comparison = SixCategories
        /\ chk.result.status \in {"MATCH", "MISMATCH"}
        /\ chk.result.status = "MATCH" <=>
              \A label \in SixCategories : chk.result.comparison[label].match

\* a completed check in which one category of the six does not match
C7_Witness ==
    /\ Completed
    /\ chk.result.status = "MISMATCH"
    /\ Cardinality({label \in SixCategories : ~chk.result.comparison[label].match}) = 1

\* the comparison of a tenant's database as its source collections alone give it
SourceComparison(d) ==
    LET tax == computeTaxTotals(d.taxA, d.taxB, dateRange, localAhead, d.noPriorTax)
        misc == computeMiscTotals(d.miscTotal, d.miscDetails)
        mtg == computeMtgTotals(d.mtg)
    IN  Comparison(Spread(Spread(tax.apptTotals, misc.apptTotals), mtg.apptTotals),
                   Spread(Put(tax.glTotals, "MISC", misc.glTotal), mtg.glTotals))

\* C8: whatever ledger-postings totals the cross-check query returns, and
\* whether or not it found drift, the comparison of a completed check is
\* the one the source collections give and the status follows from it alone.
C8_CrossCheckDiagnosticOnly ==
    Completed =>
        /\ chk.result.comparison = SourceComparison(db[chk.clientName])
        /\ chk.result.status =
              IF \A label \in SixCategories : SourceComparison(db[chk.clientName])[label].match
              THEN "MATCH" ELSE "MISMATCH"

\* a completed check whose cross-check found drift and whose status is MATCH
C8_Witness ==
    /\ Completed
    /\ chk.actualGLTotals # null
    /\ chk.glDifferences
    /\ chk.result.status = "MATCH"

\* one current-year group {100, 5, 2, 107} from each of the two tax sources
\* under the same key, no misc or mortgage records, and a cross-check total
\* of `total` for "Current Tax"
Scenario(total) ==
    LET d == db[chk.clientName]
        group == [taxYear |-> Num(WindowStatus.currentTax), schoolDistrict |-> 1, taxAmt |-> 100000,
                  penaltyAmt |-> 5000, totalFees |-> 2000, total |-> 107000]
    IN  /\ Completed
        /\ d.taxA = <<group>>
        /\ d.taxB = <<group>>
        /\ d.miscTotal = <<>> /\ d.miscDetails = <<>> /\ d.mtg = <<>>
        /\ "Current Tax" \in DOMAIN chk.fundMap
        /\ chk.actualGLTotals # null
        /\ OrZero(chk.actualGLTotals, chk.fundMap["Current Tax"]) = total

\* C9 as stated: in the scenario with a cross-check total of 107, currentTax
\* reports {apportionment: 107, gl: 107, diff: 0, match: true} and the
\* status is MATCH.
C9_Original ==
    Scenario(107000) =>
        /\ chk.result.comparison["currentTax"]
              = [apportionment |-> 107000, gl |-> 107000, diff |-> 0, match |-> TRUE]
        /\ chk.result.status = "MATCH"

\* C9 amended: in the scenario with a cross-check total of 107, the two
\* sources' groups are added, so currentTax reports {apportionment: 214,
\* gl: 214, diff: 0, match: true}, and the status is MATCH.
C9_BothSourcesAdded ==
    Scenario(107000) =>
        /\ chk.result.comparison["currentTax"]
              = [apportionment |-> 214000, gl |-> 214000, diff |-> 0, match |-> TRUE]
        /\ chk.result.status = "MATCH"

C9_Witness == Scenario(107000) /\ chk.result.status # "ERROR"

\* C10 as stated: in the scenario with a cross-check total of 100, currentTax
\* reports diff 7 and match = false, the status is MISMATCH, and currentTax
\* is among the mismatched categories.
C10_Original ==
    Scenario(100000) =>
        /\ chk.result.comparison["currentTax"].diff = 7000
        /\ ~chk.result.comparison["currentTax"].match
        /\ chk.result.status = "MISMATCH"
        /\ "currentTax" \in {label \in SixCategories : ~chk.result.comparison[label].match}

\* C10 amended: in the scenario with a cross-check total of 100, currentTax
\* still reports {apportionment: 214, gl: 214, diff: 0, match: true}, the
\* status is MATCH and no category is mismatched; the gap to the ledger is
\* only flagged by the cross-check.
C10_LedgerGapOnlyFlagged ==
    Scenario(100000) =>
        /\ chk.result.comparison["currentTax"]
              = [apportionment |-> 214000, gl |-> 214000, diff |-> 0, match |-> TRUE]
        /\ chk.result.status = "MATCH"
        /\ {label \in SixCategories : ~chk.result.comparison[label].match} = {}
        /\ chk.glDifferences

C10_Witness == Scenario(100000) /\ chk.result.error = nullStr

(***************************************************************************)
(* Properties of the pure functions (specification SpecFn).                *)
(***************************************************************************)
Applied(op) == fn.op = op /\ fn.value # null

\* C5: getTaxYearStatus gives currentTax = year - 1 for the months 1..6 and
\* currentTax = year for the months 7..12, and always priorTax =
\* currentTax - 1, backTax = currentTax - 2, nextTax = currentTax + 1.
C5_FiscalYearRule ==
    Applied("getTaxYearStatus") =>
        LET month == fn.arg.month0 + 1
            year == fn.arg.year
        IN  /\ month \in 1..6 => fn.value.currentTax = year - 1
            /\ month \in 7..12 => fn.value.currentTax = year
            /\ fn.value.priorTax = fn.value.currentTax - 1
            /\ fn.value.backTax = fn.value.currentTax - 2
            /\ fn.value.nextTax = fn.value.currentTax + 1

\* June: the last month of the fiscal year that began the year before
C5_Witness ==
    /\ Applied("getTaxYearStatus")
    /\ fn.arg.month0 = 5
    /\ fn.value.currentTax = fn.arg.year - 1

\* C6: compareValues reports match = true exactly when the difference of the
\* unrounded amounts is at most the tolerance: a difference equal to the
\* tolerance matches, one a thousandth above it does not, also where the
\* difference it reports, rounded to two decimals, is within the tolerance.
C6_MatchFromUnroundedDifference ==
    Applied("compareValues") =>
        LET apportionment == fn.arg[1]
            gl == fn.arg[2]
            tolerance == fn.arg[3]
            distance == IF apportionment >= gl THEN apportionment - gl ELSE gl - apportionment
        IN  /\ fn.value.match <=> distance <= tolerance
            /\ distance = tolerance => fn.value.match
            /\ distance = tolerance + 1 => ~fn.value.match

\* the reported difference is within the tolerance and the amounts do not match
C6_Witness ==
    /\ Applied("compareValues")
    /\ fn.arg[3] = DefaultTolerance
    /\ fn.value.diff <= fn.arg[3]
    /\ ~fn.value.match

(***************************************************************************)
(* Properties of the summary, the connection and the order of the checks   *)
(* (specification Spec).                                                   *)
(***************************************************************************)
\* the number of entries of a list with a status, counted one by one
RECURSIVE Tally(_, _)
Tally(list, status) ==
    IF list = <<>> THEN 0
    ELSE (IF Head(list).status = status THEN 1 ELSE 0) + Tally(Tail(list), status)

\* C11: the summary counts the final results by status, the counts add up
\* to total, total is the number of requested tenants, the results of the
\* output are the final results; and an entry that was ERROR after the
\* first pass and whose retry succeeded is, in the output, the retry's
\* result, so it is counted under the retried status and not under errors.
C11_SummaryOfFinalResults ==
    output # null =>
        /\ output.results = results
        /\ output.summary.matched = Tally(results, "MATCH")
        /\ output.summary.mismatched = Tally(results, "MISMATCH")
        /\ output.summary.errors = Tally(results, "ERROR")
        /\ output.summary.matched + output.summary.mismatched + output.summary.errors
              = output.summary.total
        /\ output.summary.total = Len(clients)
        /\ \A k \in DOMAIN log.first :
              (IsError(log.first[k]) /\ ~IsError(log.retried[ErrorRank(k)])) =>
                  output.results[k] = log.retried[ErrorRank(k)]
        /\ output.summary.errors
              = Cardinality({k \in DOMAIN log.first :
                               IsError(log.first[k]) /\ IsError(log.retried[ErrorRank(k)])})

\* C12: as long as the connection has not been opened no check has been
\* started, there is no tenant result, no result object, no results file and
\* no notification; a run whose connect() fails ends there, with exit code 1
\* and the connection never opened.
C12_ConnectFailureEndsRun ==
    /\ io.opens = 0 =>
          /\ log.calls = <<>>
          /\ chk.pc = "idle"
          /\ results = <<>>
          /\ output = null
          /\ io.files = 0 /\ io.emails = 0 /\ io.webhooks = 0
          /\ pc \in {"connect", "exit"}
    /\ pc = "exit" =>
          /\ io.opens = 0 /\ conn = "none"
          /\ io.exitCode = 1
          /\ ~ENABLED Next

C12_Witness ==
    /\ pc = "exit" /\ io.exitCode = 1
    /\ log.calls = <<>> /\ output = null /\ io.files = 0

\* C13: once the connection is open the run reaches its end with the result
\* object built, whatever checks fail on the way, and checkClient is called
\* at most 2 x N times for the N requested tenants.
C13_TerminatesWithOutput ==
    /\ (conn = "open") ~> (pc = "done" /\ output # null /\ Len(output.results) = Len(clients))
    /\ [](Len(log.calls) <= 2 * Len(clients))

\* the run ended after every tenant failed in both passes: 2 x N calls
C13_Witness ==
    /\ pc = "done" /\ output # null
    /\ Len(clients) = MaxClients
    /\ Len(log.calls) = 2 * Len(clients)
    /\ output.summary.errors = Len(clients)

(***************************************************************************)
(* Properties of the merge and of the totals (specification SpecCheck).    *)
(***************************************************************************)
\* the four amounts of a group
GroupAmounts(rec) == <<rec.taxAmt, rec.penaltyAmt, rec.totalFees, rec.total>>

\* C14: merging the two result sets in the order [A, B] and in the order
\* [B, A] gives the same merged amounts for every key, and the GL and
\* apportionment totals computed from the tenant's two result sets are the
\* totals computed from the two sets taken in the other order.
C14_MergeOrderInvariant ==
    TaxComputed =>
        LET d == db[chk.clientName]
            ab == MergeRecords(d.taxA, d.taxB)
            ba == MergeRecords(d.taxB, d.taxA)
        IN  /\ Len(ab) = Len(ba)
            /\ \A x \in DOMAIN ab : \E y \in DOMAIN ba :
                  SameKey(ab[x], ba[y]) /\ GroupAmounts(ab[x]) = GroupAmounts(ba[y])
            /\ chk.taxResult = computeTaxTotals(d.taxB, d.taxA, dateRange, localAhead,
                                                chk.clientConfig.noPriorTax)

\* the check in flight has computed its misc totals
MiscComputed == chk.pc \in {"computeMtgTotals", "getGLTotals", "returned"}
                   /\ chk.miscResult # null

\* what the misc domain of the tenant's database holds: the grand total, and
\* the amounts of the units whose code is in a set of codes
MiscGrandTotal ==
    LET d == db[chk.clientName]
    IN  IF d.miscTotal = <<>> THEN 0 ELSE d.miscTotal[1].totalMisc

UnitAmounts(codes) ==
    LET units == SelectSeq(db[chk.clientName].miscDetails,
                           LAMBDA detail : detail.unitCodeNumber \in codes)
    IN  SumSeq([k \in DOMAIN units |-> units[k].totalAmount])

UnitCodes == {db[chk.clientName].miscDetails[k].unitCodeNumber :
                 k \in DOMAIN db[chk.clientName].miscDetails}

\* C15: when the grand total differs from the sum of the per-unit amounts by
\* more than 0.01 in absolute value, the whole difference is added to the
\* bucket '' of unmapped amounts; when it differs by at most 0.01, nothing
\* is added.  The tagged buckets hold the units' amounts either way.  A
\* grand total of 1000.00 with units summing to 950.00 adds 50.00, with
\* units summing to 1000.005 adds nothing.
C15_ResidualBeyondTolerance ==
    MiscComputed =>
        LET appt == chk.miscResult.apptTotals
            difference == MiscGrandTotal - UnitAmounts(UnitCodes)
            unmapped == UnitAmounts(UnitCodes \ (1..6))
            added == OrZero(appt, "") - unmapped
        IN  /\ Abs(difference) > 10 => added = difference /\ "" \in DOMAIN appt
            /\ Abs(difference) <= 10 =>
                  /\ added = 0
                  /\ (UnitCodes \subseteq 1..6) => "" \notin DOMAIN appt
            /\ \A code \in 1..6 : OrZero(appt, unitCodeToTag[code]) = UnitAmounts({code})
            /\ chk.miscResult.glTotal = MiscGrandTotal
            /\ (MiscGrandTotal = 1000000 /\ UnitAmounts(UnitCodes) = 950000) => added = 50000
            /\ (MiscGrandTotal = 1000000 /\ UnitAmounts(UnitCodes) = 1000005) => added = 0

\* a grand total of 1000.00 over units summing to 950.00: 50.00 under ''
C15_Witness ==
    /\ MiscComputed
    /\ MiscGrandTotal = 1000000 /\ UnitAmounts(UnitCodes) = 950000
    /\ "" \in DOMAIN chk.miscResult.apptTotals
    /\ chk.miscResult.apptTotals[""] = 50000

(***************************************************************************)
(* Properties of the comparison loop on its own (specification SpecFn).    *)
(***************************************************************************)
\* the sum of the totals of the tags of a list that a map of totals has
PresentTotal(apptTags, apptTotals) ==
    LET present == SelectSeq(apptTags, LAMBDA tag : tag \in DOMAIN apptTotals)
    IN  SumSeq([k \in DOMAIN present |-> apptTotals[present[k]]])

\* C16: in the comparison a tag absent from the apportionment totals and a
\* fund key absent from the GL totals each count as 0: for every pair of
\* totals maps, the empty ones included, each of the six categories gets a
\* numeric apportionment, gl and diff and a boolean match, made from the
\* totals that are present alone.
C16_AbsentTotalsCountZero ==
    Applied("comparison") =>
        /\ DOMAIN fn.value = CategoryLabels
        /\ \A c \in DOMAIN FUND_CATEGORIES :
              LET cat == FUND_CATEGORIES[c]
                  compResult == fn.value[cat.label]
                  apptAmount == PresentTotal(cat.apptTags, fn.arg[1])
                  glAmount == IF cat.cmnfundsAltKey \in DOMAIN fn.arg[2]
                              THEN fn.arg[2][cat.cmnfundsAltKey] ELSE 0
              IN  /\ DOMAIN compResult = {"apportionment", "gl", "diff", "match"}
                  /\ compResult.apportionment \in Int
                  /\ compResult.gl \in Int
                  /\ compResult.diff \in Nat
                  /\ compResult.match \in BOOLEAN
                  /\ compResult.apportionment = Round2(apptAmount)
                  /\ compResult.gl = Round2(glAmount)
                  /\ compResult.diff = Round2(Abs(apptAmount - glAmount))
                  /\ compResult.match = (Abs(apptAmount - glAmount) <= DefaultTolerance)

\* a category with one of its three tags present and its fund key absent
C16_Witness ==
    /\ Applied("comparison")
    /\ DOMAIN fn.arg[1] = {"CTax"} /\ fn.arg[2] = EmptyMap
    /\ fn.value["currentTax"]
          = [apportionment |-> 100000, gl |-> 0, diff |-> 100000, match |-> FALSE]
    /\ fn.value["mtgTax"] = [apportionment |-> 0, gl |-> 0, diff |-> 0, match |-> TRUE]

(***************************************************************************)
(* Properties of the connection and of the order of the checks             *)
(* (specification Spec).                                                   *)
(***************************************************************************)
\* C17: the connection is opened once, before any check is started, and
\* closed once, after the last check of the retry pass has returned; every
\* query is issued on the open connection, and a check is in flight only
\* while the connection is open.
C17_OneConnectionAroundChecks ==
    /\ io.opens <= 1 /\ io.closes <= 1
    /\ (conn = "open") = (io.opens = 1 /\ io.closes = 0)
    /\ (conn = "closed") = (io.closes = 1)
    /\ ~io.stray
    /\ log.calls # <<>> => io.opens = 1
    /\ chk.pc # "idle" => conn = "open"
    /\ io.closes = 1 =>
          /\ io.opens = 1
          /\ chk.pc = "idle"
          /\ Len(results) = Len(clients)
          /\ Len(log.retried) = Len(failedClients)
          /\ Len(log.calls) = Len(clients) + Len(failedClients)
    /\ pc = "done" => io.opens = 1 /\ io.closes = 1

\* a run with a retry pass has ended: opened once, closed once
C17_Witness ==
    /\ pc = "done"
    /\ io.opens = 1 /\ io.closes = 1 /\ conn = "closed"
    /\ Len(log.retried) > 0
    /\ Len(log.calls) = Len(clients) + Len(log.retried)

\* the checkClient calls that have returned to main()
Returned ==
    IF pc \in {"connect", "exit", "awaitFirst"} THEN Len(results)
    ELSE Len(clients) + Len(log.retried)

\* C18: the tenants are checked one at a time.  At most one checkClient call
\* has not returned; call k of the first pass is for tenant k and was made
\* with the results of the k - 1 tenants before it appended; a call of the
\* retry pass was made with a first-pass result for every tenant and with
\* every earlier retry returned.
C18_OneCheckAtATime ==
    /\ Len(log.calls) - Returned \in {0, 1}
    /\ (Len(log.calls) - Returned = 1) = (chk.pc # "idle")
    /\ \A k \in DOMAIN log.calls :
          /\ log.calls[k].pass = 1 =>
                /\ k <= Len(clients)
                /\ log.calls[k].client = clients[k]
                /\ Len(results) >= k - 1
                /\ \A j \in 1..(k - 1) : log.calls[j].pass = 1
          /\ log.calls[k].pass = 2 =>
                /\ k > Len(clients)
                /\ Len(log.first) = Len(clients)
                /\ Len(results) = Len(clients)
                /\ Len(log.retried) >= k - Len(clients) - 1
    /\ pc = "awaitFirst" => /\ Len(log.calls) = Len(results) + 1
                            /\ i = Len(results)
                            /\ chk.clientName = clients[i + 1]
    /\ pc = "awaitRetry" => /\ Len(log.calls) = Len(clients) + Len(log.retried) + 1
                            /\ r = Len(log.retried) + 1
                            /\ chk.clientName = failedClients[r].client

\* the second retry of a run is in flight: two first-pass results, one retry returned
C18_Witness ==
    /\ pc = "awaitRetry" /\ chk.pc \in Awaiting
    /\ Len(clients) = MaxClients
    /\ Len(log.retried) = 1
    /\ Len(log.calls) = Len(clients) + 2

(***************************************************************************)
(* Properties of the tax totals (specification SpecCheck).                 *)
(***************************************************************************)
\* C19: the GL total under a bucket's fund key and the totals under the
\* bucket's three tags are running sums over the same merged records, those
\* the classification puts in the bucket: several records of one bucket add
\* up, a bucket without a record has neither a fund key nor a tag, and when
\* every record's total is the sum of its three amounts, a bucket's GL total
\* is the sum of its three tag totals.
C19_BothSidesFromSameRecords ==
    TaxComputed =>
        LET d == db[chk.clientName]
            merged == MergeRecords(d.taxA, d.taxB)
            gl == chk.taxResult.glTotals
            appt == chk.taxResult.apptTotals
            Of(b) == SelectSeq(merged, LAMBDA rec :
                        yearCategory(rec.taxYear, WindowStatus, chk.clientConfig.noPriorTax) = b)
            balanced == \A k \in DOMAIN merged :
                           merged[k].total = merged[k].taxAmt + merged[k].penaltyAmt
                                                + merged[k].totalFees
        IN  \A b \in {"current", "prior", "back"} :
               /\ Of(b) = <<>> =>
                     /\ glKey(b) \notin DOMAIN gl
                     /\ {taxTag(b), penTag(b), feeTag(b)} \cap DOMAIN appt = {}
               /\ Of(b) # <<>> =>
                     /\ glKey(b) \in DOMAIN gl
                     /\ {taxTag(b), penTag(b), feeTag(b)} \subseteq DOMAIN appt
                     /\ gl[glKey(b)] = SumSeq([k \in DOMAIN Of(b) |-> Of(b)[k].total])
                     /\ appt[taxTag(b)] = SumSeq([k \in DOMAIN Of(b) |-> Of(b)[k].taxAmt])
                     /\ appt[penTag(b)] = SumSeq([k \in DOMAIN Of(b) |-> Of(b)[k].penaltyAmt])
                     /\ appt[feeTag(b)] = SumSeq([k \in DOMAIN Of(b) |-> Of(b)[k].totalFees])
                     /\ balanced => gl[glKey(b)] = appt[taxTag(b)] + appt[penTag(b)] + appt[feeTag(b)]

\* two merged records of different keys have been summed under Back Tax
C19_Witness ==
    /\ TaxComputed
    /\ chk.clientConfig.noPriorTax
    /\ Len(MergeRecords(db[chk.clientName].taxA, db[chk.clientName].taxB)) = 2
    /\ "Back Tax" \in DOMAIN chk.taxResult.glTotals
    /\ chk.taxResult.glTotals["Back Tax"] = 71000
    /\ chk.taxResult.apptTotals["BTax"] = 70000
    /\ chk.taxResult.apptTotals["BTaxFee"] = 1000

(***************************************************************************)
(* The frame of the retry pass (specification Spec).                       *)
(***************************************************************************)
\* C20: from the end of the first pass on, an entry that was MATCH or
\* MISMATCH after the first pass is the first-pass result, and an entry that
\* was ERROR is the first-pass result until the retry made for it has
\* returned and that retry's result from then on, for every tenant list,
\* the lists that name a tenant more than once included.
C20_RetryLeavesOthersUnchanged ==
    log.first # <<>> =>
        /\ Len(results) = Len(log.first)
        /\ \A k \in DOMAIN log.first :
              IF ~IsError(log.first[k]) THEN results[k] = log.first[k]
              ELSE IF ErrorRank(k) <= Len(log.retried)
                   THEN results[k] = log.retried[ErrorRank(k)]
                   ELSE results[k] = log.first[k]

(***************************************************************************)
(* Properties of the tenant result (specification SpecCheck).              *)
(***************************************************************************)
\* the shape the claim gives a tenant result
WellFormedResult(res) ==
    /\ res.status \in {"MATCH", "MISMATCH", "ERROR"}
    /\ (res.status = "ERROR") = (res.error # nullStr /\ res.comparison = null)
    /\ (res.status \in {"MATCH", "MISMATCH"})
          = (res.comparison # null /\ res.error = nullStr
                /\ DOMAIN res.comparison = CategoryLabels)
    /\ Cardinality(CategoryLabels) = 6

\* C21: the result checkClient returns, and so every result main() holds,
\* has a status among MATCH, MISMATCH and ERROR; it is ERROR exactly when
\* error is set and comparison is null, and MATCH or MISMATCH exactly when
\* comparison has the six categories and error is null.  A failure of the
\* ledger query of the cross-check, made after the comparison was computed,
\* gives ERROR with comparison null.
C21_ResultWellFormed ==
    /\ chk.pc = "returned" =>
          /\ WellFormedResult(chk.result)
          /\ chk.result.client = chk.clientName
          /\ (chk.thrown # nullStr) = (chk.result.status = "ERROR")
          /\ chk.thrown # nullStr => chk.result.error = chk.thrown
          /\ (chk.thrown # nullStr /\ chk.comparison # null) =>
                /\ chk.result.status = "ERROR"
                /\ chk.result.comparison = null
    /\ \A k \in DOMAIN results : WellFormedResult(results[k])

\* the ledger query failed after a comparison with a mismatch was computed
C21_Witness ==
    /\ chk.pc = "returned"
    /\ chk.thrown # nullStr
    /\ chk.comparison # null /\ ~chk.allMatch
    /\ chk.result.status = "ERROR"
    /\ chk.result.comparison = null
    /\ chk.result.error = chk.thrown

(***************************************************************************)
(* What can make a tenant MISMATCH (specification SpecCheck).              *)
(***************************************************************************)
\* the check in flight has computed its comparison
Compared == chk.pc \in {"getGLTotals", "returned"} /\ chk.comparison # null

MiscTags == {"ABT", "JT4MILL", "MV", "MVTS", "FLOOD", "INTEREST", "", "undefined"}

\* the sum of the values of a map of totals
RECURSIVE SumOfMap(_)
SumOfMap(m) ==
    IF DOMAIN m = {} THEN 0
    ELSE LET k == CHOOSE x \in DOMAIN m : TRUE
         IN  m[k] + SumOfMap([x \in (DOMAIN m) \ {k} |-> m[x]])

\* a tax bucket whose records' totals are off their summed parts by more than 0.01
TaxBucketOff ==
    LET d == db[chk.clientName]
        merged == MergeRecords(d.taxA, d.taxB)
        In(b) == SelectSeq(merged, LAMBDA rec :
                    RuleBucket(rec.taxYear, chk.clientConfig.noPriorTax) = b)
    IN  \E b \in DOMAIN BucketKeys :
           Abs(SumSeq([k \in DOMAIN In(b) |-> In(b)[k].total])
               - SumSeq([k \in DOMAIN In(b) |->
                           In(b)[k].taxAmt + In(b)[k].penaltyAmt + In(b)[k].totalFees])) > 10

\* C22: miscReceipts, mtgTax and mtgTaxCert are never reported with match
\* false.  The mortgage categories have the same sums on both sides; every
\* misc tag belongs to miscReceipts and the misc tags sum to within 0.01 of
\* the misc grand total; the three domains' maps have disjoint keys, so the
\* combined maps hold every domain's totals as computed.  So a tenant is
\* MISMATCH only when a tax bucket's summed total is off its summed taxAmt +
\* penaltyAmt + totalFees by more than 0.01.
C22_OnlyTaxCanMismatch ==
    Compared =>
        LET tax == chk.taxResult
            misc == chk.miscResult
            mtg == chk.mtgResult
        IN  /\ chk.comparison["miscReceipts"].match
            /\ chk.comparison["mtgTax"].match
            /\ chk.comparison["mtgTaxCert"].match
            /\ mtg.glTotals["MtgTax"] = mtg.apptTotals["MtgTax"]
            /\ mtg.glTotals["MtgTaxFee"] = mtg.apptTotals["MtgTaxCert"]
            /\ DOMAIN misc.apptTotals \subseteq MiscTags
            /\ Abs(SumOfMap(misc.apptTotals) - misc.glTotal) <= 10
            /\ (DOMAIN tax.apptTotals) \cap (DOMAIN misc.apptTotals) = {}
            /\ (DOMAIN tax.apptTotals) \cap (DOMAIN mtg.apptTotals) = {}
            /\ (DOMAIN misc.apptTotals) \cap (DOMAIN mtg.apptTotals) = {}
            /\ (DOMAIN tax.glTotals) \cap (DOMAIN mtg.glTotals) = {}
            /\ "MISC" \notin (DOMAIN tax.glTotals) \cup (DOMAIN mtg.glTotals)
            /\ \A tag \in DOMAIN tax.apptTotals : chk.apptTotals[tag] = tax.apptTotals[tag]
            /\ \A tag \in DOMAIN misc.apptTotals : chk.apptTotals[tag] = misc.apptTotals[tag]
            /\ \A tag \in DOMAIN mtg.apptTotals : chk.apptTotals[tag] = mtg.apptTotals[tag]
            /\ \A key \in DOMAIN tax.glTotals : chk.glByFundAltKey[key] = tax.glTotals[key]
            /\ chk.glByFundAltKey["MISC"] = misc.glTotal
            /\ ~chk.allMatch => TaxBucketOff
            /\ (chk.pc = "returned" /\ chk.result.status = "MISMATCH") => TaxBucketOff

\* a MISMATCH tenant: the tax total is 0.012 off, the misc units are 50.00
\* short of the grand total, and miscReceipts and the mortgage categories match
C22_Witness ==
    /\ Completed
    /\ chk.result.status = "MISMATCH"
    /\ ~chk.result.comparison["currentTax"].match
    /\ chk.miscResult.glTotal = 1000000
    /\ "" \in DOMAIN chk.miscResult.apptTotals
    /\ chk.result.comparison["miscReceipts"]
          = [apportionment |-> 1000000, gl |-> 1000000, diff |-> 0, match |-> TRUE]
    /\ chk.result.comparison["mtgTax"]
          = [apportionment |-> 40000, gl |-> 40000, diff |-> 0, match |-> TRUE]
    /\ chk.result.comparison["mtgTaxCert"].match

====
